---- MODULE Spec2Model ----
(***************************************************************************)
(* Model of the supplements backend: the pricing calculation, the cart     *)
(* service working against the remote store one query at a time, the       *)
(* inventory writes of the admin API, and the authGuard / adminGuard       *)
(* middleware in front of the cart and admin routers.                      *)
(*                                                                         *)
(* Money is counted in thousandths of a peso (mills), so that the          *)
(* toFixed(2) conversions of the pricing service are a real rounding to    *)
(* cents rather than the identity.  Catalogue prices are whole cents.      *)
(***************************************************************************)
EXTENDS Integers, Sequences, FiniteSets, TLC

VARIABLES
    items,        \* pricing: the cart lines handed to calculatePricing
    calculation,  \* pricing: the PricingCalculation it returned, or NoValue
    products,     \* table products:   product id -> row or NoRow
    inventory,    \* table inventory:  product id -> row (stock, low_stock_threshold) or NoRow
    carts,        \* table carts: the users that have a carts row
    cart_items,   \* table cart_items: user's cart -> product id -> row (qty) or NoRow
    profiles,     \* table profiles:   user -> row (role, terms_accepted_at) or NoRow
    product_images, \* table product_images: product id -> number of its rows
    call,         \* the service calls in flight, one per request slot
    before,       \* cart_items as it was when the call under observation began
    http          \* the request in the middleware chain of a guarded router

vars == <<items, calculation, products, inventory, carts, cart_items,
          profiles, product_images, call, before, http>>

\* An optional value (null / undefined, or a value) and the result of a
\* maybeSingle() query (no row, or the row) are sequences of length 0 or 1.
NoValue == << >>
NoRow == << >>
Some(v) == <<v>>
Row(v) == <<v>>
Val(o) == o[1]

----------------------------------------------------------------------------
(* Pricing service                                                         *)

DISTRIBUTOR_THRESHOLD == 5000
MINIMUM_ORDER_ITEMS == 7

MillsPerPeso == 1000

\* Bounds of the pricing inputs.
MaxLines == 2
MaxQty == 4

\* Catalogue prices in mills: 0.00, 999.99, 1000.00, 1250.00, 2500.00.
RetailPrices == {0, 999990, 1250000, 2500000}
DistributorPrices == {0, 1000000, 2500000}

CartLine == [retail_price : RetailPrices,
             distributor_price : DistributorPrices,
             qty : 1..MaxQty]

\* The price validation of the createProduct and updateProduct controllers:
\* a request is refused with 400 only when a price is negative.
PricesAccepted(retail_price, distributor_price) ==
    ~(retail_price < 0 \/ distributor_price < 0)

\* What one line adds to the running total of a reduce over the items.
LineAmount(what, item) ==
    IF what = "retail" THEN item.retail_price * item.qty
    ELSE IF what = "distributor" THEN item.distributor_price * item.qty
    ELSE item.qty

RECURSIVE Reduce(_, _, _)
\* its.reduce((total, item) => total + <amount of item>, total)
Reduce(what, its, total) ==
    IF its = << >> THEN total
    ELSE Reduce(what, Tail(its), total + LineAmount(what, Head(its)))

Abs(x) == IF x < 0 THEN -x ELSE x

\* Number(x.toFixed(2)): x in mills rounded to the nearest cent, halves away
\* from zero.
ToFixed2(x) ==
    LET r == ((Abs(x) + 5) \div 10) * 10
    IN  IF x < 0 THEN -r ELSE r

\* static qualifiesForDistributorPricing(subtotal)
qualifiesForDistributorPricing(subtotal) ==
    subtotal >= DISTRIBUTOR_THRESHOLD * MillsPerPeso

\* static meetsMinimumItems(itemCount)
meetsMinimumItems(itemCount) == itemCount >= MINIMUM_ORDER_ITEMS

qualifiesForDistributor_strict(retailSubtotal) ==
    retailSubtotal > DISTRIBUTOR_THRESHOLD * MillsPerPeso

\* const qualifiesForDistributor = retailSubtotal >= CONFIG.DISTRIBUTOR_THRESHOLD
qualifiesForDistributor(retailSubtotal) ==
    retailSubtotal >= DISTRIBUTOR_THRESHOLD * MillsPerPeso

meetsMinimum_strict(totalItems) == totalItems > MINIMUM_ORDER_ITEMS

\* const meetsMinimum = totalItems >= CONFIG.MINIMUM_ORDER_ITEMS
meetsMinimum(totalItems) == totalItems >= MINIMUM_ORDER_ITEMS

calculatePricing(its) ==
    LET retailSubtotal == Reduce("retail", its, 0)
        distributorSubtotal == Reduce("distributor", its, 0)
        totalItems == Reduce("count", its, 0)
        qualifies == qualifiesForDistributor(retailSubtotal)
        subtotal == IF qualifies THEN distributorSubtotal ELSE retailSubtotal
        distributorSavings == IF qualifies
                              THEN retailSubtotal - distributorSubtotal
                              ELSE 0
    IN  [subtotal |-> ToFixed2(subtotal),
         tier |-> IF qualifies THEN "distributor" ELSE "retail",
         items_count |-> totalItems,
         meets_minimum |-> meetsMinimum(totalItems),
         \* a saving of 0 is falsy and is reported as undefined
         distributor_savings |->
             IF qualifies /\ distributorSavings # 0
             THEN Some(ToFixed2(distributorSavings)) ELSE NoValue]

RECURSIVE SeqsUpTo(_, _)
SeqsUpTo(S, n) ==
    IF n = 0 THEN {<< >>}
    ELSE LET shorter == SeqsUpTo(S, n - 1)
         IN  shorter \cup {Append(s, x) : s \in {t \in shorter : Len(t) = n - 1}, x \in S}

PricingIdle == items = << >> /\ calculation = NoValue

CalculatePricing ==
    /\ calculation = NoValue
    /\ calculation' = Some(calculatePricing(items))
    /\ UNCHANGED <<items, products, inventory, product_images, carts, cart_items, profiles,
                   call, before, http>>

----------------------------------------------------------------------------
(* Domain errors and their HTTP answers                                    *)

\* new DomainError(message, code, statusCode): an error object that is an
\* instance of DomainError.  A message is the sequence of the pieces the
\* constructor's template joins.
DomainError(name, message, code, statusCode) ==
    [name |-> name, instanceofDomainError |-> TRUE, message |-> message,
     code |-> Some(code), statusCode |-> Some(statusCode)]

NotFoundError(resource, identifier) ==
    DomainError("NotFoundError",
                IF identifier # NoValue
                THEN <<resource, " with identifier '", ToString(Val(identifier)),
                       "' not found">>
                ELSE <<resource, " not found">>,
                "NOT_FOUND", 404)

ConflictError(resource, field, value) ==
    DomainError("ConflictError",
                <<resource, " with ", field, " '", value, "' already exists">>,
                "CONFLICT", 409)

ValidationError(message, field) ==
    DomainError("ValidationError",
                IF field # NoValue THEN <<Val(field), ": ", message>>
                ELSE <<message>>,
                "VALIDATION_ERROR", 400)

UnauthorizedError(message) ==
    DomainError("UnauthorizedError", <<message>>, "UNAUTHORIZED", 401)

ForbiddenError(message) ==
    DomainError("ForbiddenError", <<message>>, "FORBIDDEN", 403)

InsufficientDataError(resource, available, requested) ==
    DomainError("InsufficientDataError",
                <<"Insufficient ", resource, ". Available: ", ToString(available),
                  ", Requested: ", ToString(requested)>>,
                "INSUFFICIENT_DATA", 422)

BusinessRuleError(message) ==
    DomainError("BusinessRuleError", <<message>>, "BUSINESS_RULE_VIOLATION", 422)

InternalServerError(message) ==
    DomainError("InternalServerError", <<message>>, "INTERNAL_ERROR", 500)

\* An error that is not a DomainError: a JavaScript Error, or the error object
\* of the store's client, which may carry its own code and status.
OtherError(name, message, code, statusCode) ==
    [name |-> name, instanceofDomainError |-> FALSE, message |-> <<message>>,
     code |-> code, statusCode |-> statusCode]

isDomainError(error) == error.instanceofDomainError

getHttpStatusCode_byProperty(error) ==
    IF error.statusCode # NoValue THEN Val(error.statusCode) ELSE 500

getHttpStatusCode(error) ==
    IF isDomainError(error) THEN Val(error.statusCode) ELSE 500

formatErrorResponse(error) ==
    IF isDomainError(error)
    THEN [error |-> Val(error.code), message |-> error.message]
    ELSE [error |-> "INTERNAL_ERROR",
          message |-> <<"An unexpected error occurred">>]

----------------------------------------------------------------------------
(* Remote store: catalogue, inventory, carts                               *)

Users == {"u1", "u2"}
\* Products 1 and 2 are active and stocked, 3 is inactive and has no
\* inventory row, 4 does not exist.
ProductIds == 1..4

\* Bounds of the cart model.
MaxStock == 2     \* stock levels range over 0..MaxStock
MaxReqQty == 2    \* requested quantities range up to MaxReqQty

\* The requests that may be in flight together.
Slots == {1, 2}

\* A row of products.
ProductRow(sku, active) == Row([sku |-> sku, active |-> active])

InitProducts ==
    [p \in ProductIds |->
        IF p = 1 THEN ProductRow("sku1", TRUE)
        ELSE IF p = 2 THEN ProductRow("sku2", TRUE)
        ELSE IF p = 3 THEN ProductRow("sku3", FALSE)
        ELSE NoRow]

\* A row of inventory.
InventoryRow(stock, low_stock_threshold) ==
    Row([stock |-> stock, low_stock_threshold |-> low_stock_threshold])

\* The default of low_stock_threshold in createProduct and createInventory.
DefaultLowStockThreshold == 5

InitInventory ==
    [p \in ProductIds |->
        IF p = 1 THEN InventoryRow(MaxStock, DefaultLowStockThreshold)
        ELSE IF p = 2 THEN InventoryRow(MaxStock - 1, DefaultLowStockThreshold)
        ELSE NoRow]

\* Product 1 starts with an image, the others without.
InitProductImages == [p \in ProductIds |-> IF p = 1 THEN 1 ELSE 0]

EmptyCartItems == [u \in Users |-> [p \in ProductIds |-> NoRow]]

\* InventoryService.getInventory + checkStockAvailability
checkStockAvailability(productId, requiredQuantity) ==
    IF inventory[productId] = NoRow
    THEN [available |-> FALSE, currentStock |-> 0]
    ELSE [available |-> Val(inventory[productId]).stock >= requiredQuantity,
          currentStock |-> Val(inventory[productId]).stock]

validateStock_anyRow(productId, requestedQty) ==
    [available_stock |-> checkStockAvailability(productId, requestedQty).currentStock,
     is_valid |-> inventory[productId] # NoRow]

\* CartService.validateStock
validateStock(productId, requestedQty) ==
    LET stockCheck == checkStockAvailability(productId, requestedQty)
    IN  [available_stock |-> stockCheck.currentStock,
         is_valid |-> stockCheck.available]

\* CartService.validateProductExists
validateProductExists(productId) ==
    [exists |-> products[productId] # NoRow,
     isActive |-> IF products[productId] = NoRow THEN FALSE
                  ELSE Val(products[productId]).active]

\* getCartItemWithProduct: the line joined with its active product, or null
getCartItemWithProduct(cart, productId) ==
    IF /\ cart_items[cart][productId] # NoRow
       /\ products[productId] # NoRow
       /\ Val(products[productId]).active
    THEN Some(Val(cart_items[cart][productId]))
    ELSE NoValue

----------------------------------------------------------------------------
(* Cart service calls, one store query per step                            *)

Ops == {"getCart", "addToCart", "updateCartItem", "removeFromCart", "clearCart"}

IdleCall == [op |-> "none", user |-> "none", product |-> 0, qty |-> 0,
             role |-> NoValue, sku |-> NoValue, initial_stock |-> NoValue,
             low_stock_threshold |-> NoValue, pc |-> "idle", existing |-> NoValue, available_stock |-> NoValue,
             error |-> "none", result |-> NoValue]

\* The catch clause of addToCart rethrows ValidationError and
\* InternalServerError; anything else becomes InternalServerError.
addToCartCatch(err) ==
    IF err \in {"ValidationError", "InternalServerError"}
    THEN err ELSE "InternalServerError"

\* The catch clause of updateCartItem also rethrows NotFoundError.
updateCartItemCatch(err) ==
    IF err \in {"ValidationError", "NotFoundError", "InternalServerError"}
    THEN err ELSE "InternalServerError"

\* removeFromCart and clearCart rethrow InternalServerError only.
removeFromCartCatch(err) ==
    IF err = "InternalServerError" THEN err ELSE "InternalServerError"

\* getCartSummary rethrows NotFoundError and InternalServerError.
getCartSummaryCatch(err) ==
    IF err \in {"NotFoundError", "InternalServerError"}
    THEN err ELSE "InternalServerError"

ServiceCatch(op, err) ==
    IF op = "addToCart" THEN addToCartCatch(err)
    ELSE IF op = "updateCartItem" THEN updateCartItemCatch(err)
    ELSE IF op = "getCart" THEN getCartSummaryCatch(err)
    ELSE removeFromCartCatch(err)

\* The status the CartController answers with for the service's outcome.
CartControllerStatus(op, err) ==
    IF err = "none" THEN 200
    ELSE IF op \in {"addToCart", "updateCartItem"} /\ err = "ValidationError" THEN 400
    ELSE IF op \in {"addToCart", "updateCartItem"} /\ err = "NotFoundError" THEN 404
    ELSE 500

Status(c) == CartControllerStatus(c.op, c.error)

\* A call that threw err inside the service's try block.
Throw(s, err) ==
    call' = [call EXCEPT ![s].pc = "done",
                         ![s].existing = NoValue,
                         ![s].error = ServiceCatch(call[s].op, err)]

\* A call whose stock validation just read seen and refused the quantity.
ThrowInsufficient(s, seen) ==
    call' = [call EXCEPT ![s].pc = "done",
                         ![s].existing = NoValue,
                         ![s].available_stock = Some(seen),
                         ![s].error = ServiceCatch(call[s].op, "ValidationError")]

\* A call whose stock validation just read seen and accepted the quantity.
Validated(s, seen, label) ==
    call' = [call EXCEPT ![s].pc = label, ![s].available_stock = Some(seen)]

Return(s, value) ==
    call' = [call EXCEPT ![s].pc = "done",
                         ![s].existing = NoValue,
                         ![s].result = value]

Goto(s, label) == call' = [call EXCEPT ![s].pc = label]

AfterCart_validateFirst(c) ==
    IF c.op \in {"addToCart", "updateCartItem"} THEN "product"
    ELSE IF c.op = "removeFromCart" THEN "delete"
    ELSE IF c.op = "clearCart" THEN "delete_all"
    ELSE "summary"

\* Where a call goes once getOrCreateCart returned the cart.
AfterCart(c) ==
    IF c.op = "addToCart" THEN "product"
    ELSE IF c.op = "updateCartItem"
         THEN IF c.qty = 0 THEN "delete" ELSE "product"
    ELSE IF c.op = "removeFromCart" THEN "delete"
    ELSE IF c.op = "clearCart" THEN "delete_all"
    ELSE "summary"

pricingVars == <<items, calculation>>
catalogVars == <<products, inventory, product_images>>

\* The arguments a cart request can carry.  removeFromCart has no quantity,
\* clearCart neither product nor quantity.
CallArgs ==
    [op : {"addToCart"}, user : Users, product : ProductIds, qty : 0..MaxReqQty]
    \cup [op : {"updateCartItem"}, user : Users, product : ProductIds,
          qty : (-1)..MaxReqQty]
    \cup [op : {"removeFromCart"}, user : Users, product : ProductIds, qty : {0}]
    \cup [op : {"clearCart"}, user : Users, product : {0}, qty : {0}]

\* The input validation of the controller and of the service's first lines:
\* addToCart wants qty > 0, updateCartItem wants qty >= 0.
ValidQty(op, qty) ==
    IF op = "addToCart" THEN qty > 0
    ELSE IF op = "updateCartItem" THEN qty >= 0
    ELSE TRUE

\* The handler of a cart route is invoked for the authenticated user.
Invoke(s, a) ==
    /\ call[s].pc = "idle"
    /\ call' = [call EXCEPT ![s] =
           [IdleCall EXCEPT
               !.op = a.op, !.user = a.user, !.product = a.product, !.qty = a.qty,
               !.pc = IF ValidQty(a.op, a.qty) THEN "cart_find" ELSE "done",
               !.error = IF ValidQty(a.op, a.qty) THEN "none" ELSE "ValidationError"]]

StartCallAs(s, a) ==
    /\ Invoke(s, a)
    /\ UNCHANGED <<pricingVars, catalogVars, carts, cart_items, profiles, http>>

\* A request of any kind; the cart lines are recorded as it starts.
StartCall(s) ==
    /\ \E a \in CallArgs : StartCallAs(s, a)
    /\ before' = cart_items

\* The requests of the overlapping runs: a valid quantity, and product 1, the
\* one line the requests compete for (clearCart names no product).
WritingArgs ==
    {a \in CallArgs : ValidQty(a.op, a.qty) /\ a.product \in {0, 1}}

StartWritingCall(s) ==
    /\ \E a \in WritingArgs : StartCallAs(s, a)
    /\ UNCHANGED before

\* getOrCreateCart: select the user's cart
CartFind(s) ==
    /\ call[s].pc = "cart_find"
    /\ IF call[s].user \in carts
       THEN Goto(s, AfterCart(call[s]))
       ELSE Goto(s, "cart_insert")
    /\ UNCHANGED <<pricingVars, catalogVars, carts, cart_items, profiles, before, http>>

\* getOrCreateCart: insert the cart; carts.user_id is unique, so the insert
\* of a second row for the user fails with createError
CartInsert(s) ==
    /\ call[s].pc = "cart_insert"
    /\ IF call[s].user \in carts
       THEN Throw(s, "InternalServerError") /\ UNCHANGED carts
       ELSE carts' = carts \cup {call[s].user} /\ Goto(s, AfterCart(call[s]))
    /\ UNCHANGED <<pricingVars, catalogVars, cart_items, profiles, before, http>>

\* validateProductExists and the two checks on its answer
ValidateProduct(s) ==
    /\ call[s].pc = "product"
    /\ LET productExists == validateProductExists(call[s].product)
       IN  IF ~productExists.exists THEN Throw(s, "NotFoundError")
           ELSE IF ~productExists.isActive THEN Throw(s, "ValidationError")
           ELSE Goto(s, "stock")
    /\ UNCHANGED <<pricingVars, catalogVars, carts, cart_items, profiles, before, http>>

\* validateStock(productId, qty)
ValidateStock(s) ==
    /\ call[s].pc = "stock"
    /\ LET stockValidation == validateStock(call[s].product, call[s].qty)
       IN  IF ~stockValidation.is_valid
           THEN ThrowInsufficient(s, stockValidation.available_stock)
           ELSE Validated(s, stockValidation.available_stock,
                          IF call[s].op = "addToCart" THEN "item_find"
                                                      ELSE "item_update")
    /\ UNCHANGED <<pricingVars, catalogVars, carts, cart_items, profiles, before, http>>

\* addToCart: select the existing line
ItemFind(s) ==
    /\ call[s].pc = "item_find"
    /\ LET existingItem == cart_items[call[s].user][call[s].product]
       IN  call' = [call EXCEPT
                      ![s].existing = existingItem,
                      ![s].pc = IF existingItem # NoRow THEN "stock_again"
                                                        ELSE "item_insert"]
    /\ UNCHANGED <<pricingVars, catalogVars, carts, cart_items, profiles, before, http>>

RevalidateStock_skipped(s) ==
    /\ call[s].pc = "stock_again"
    /\ Goto(s, "item_increment")
    /\ UNCHANGED <<pricingVars, catalogVars, carts, cart_items, profiles, before, http>>

\* addToCart: validateStock(productId, existingItem.qty + qty)
RevalidateStock(s) ==
    /\ call[s].pc = "stock_again"
    /\ LET newQty == Val(call[s].existing) + call[s].qty
           newStockValidation == validateStock(call[s].product, newQty)
       IN  IF ~newStockValidation.is_valid
           THEN ThrowInsufficient(s, newStockValidation.available_stock)
           ELSE Validated(s, newStockValidation.available_stock, "item_increment")
    /\ UNCHANGED <<pricingVars, catalogVars, carts, cart_items, profiles, before, http>>

ItemIncrement_overwrite(s) ==
    /\ call[s].pc = "item_increment"
    /\ LET u == call[s].user
           p == call[s].product
       IN  IF cart_items[u][p] = NoRow
           THEN Throw(s, "InternalServerError") /\ UNCHANGED cart_items
           ELSE /\ cart_items' = [cart_items EXCEPT ![u][p] = Row(call[s].qty)]
                /\ Goto(s, "fetch")
    /\ UNCHANGED <<pricingVars, catalogVars, carts, profiles, before, http>>

\* addToCart: update({qty: newQty}).select().single(); no row left to update
\* is an updateError
ItemIncrement(s) ==
    /\ call[s].pc = "item_increment"
    /\ LET u == call[s].user
           p == call[s].product
           newQty == Val(call[s].existing) + call[s].qty
       IN  IF cart_items[u][p] = NoRow
           THEN Throw(s, "InternalServerError") /\ UNCHANGED cart_items
           ELSE /\ cart_items' = [cart_items EXCEPT ![u][p] = Row(newQty)]
                /\ Goto(s, "fetch")
    /\ UNCHANGED <<pricingVars, catalogVars, carts, profiles, before, http>>

\* addToCart: insert the line; (cart_id, product_id) is the key of cart_items,
\* so a line inserted meanwhile makes this an insertError
ItemInsert(s) ==
    /\ call[s].pc = "item_insert"
    /\ LET u == call[s].user
           p == call[s].product
       IN  IF cart_items[u][p] # NoRow
           THEN Throw(s, "InternalServerError") /\ UNCHANGED cart_items
           ELSE /\ cart_items' = [cart_items EXCEPT ![u][p] = Row(call[s].qty)]
                /\ Goto(s, "fetch")
    /\ UNCHANGED <<pricingVars, catalogVars, carts, profiles, before, http>>

ItemUpdate_upsert(s) ==
    /\ call[s].pc = "item_update"
    /\ cart_items' = [cart_items EXCEPT ![call[s].user][call[s].product] =
                                            Row(call[s].qty)]
    /\ Goto(s, "fetch")
    /\ UNCHANGED <<pricingVars, catalogVars, carts, profiles, before, http>>

\* updateCartItem: update({qty: newQty}) of the rows that match, none included
ItemUpdate(s) ==
    /\ call[s].pc = "item_update"
    /\ LET u == call[s].user
           p == call[s].product
       IN  cart_items' = IF cart_items[u][p] = NoRow THEN cart_items
                         ELSE [cart_items EXCEPT ![u][p] = Row(call[s].qty)]
    /\ Goto(s, "fetch")
    /\ UNCHANGED <<pricingVars, catalogVars, carts, profiles, before, http>>

\* getCartItemWithProduct and the check of its answer
Fetch(s) ==
    /\ call[s].pc = "fetch"
    /\ LET item == getCartItemWithProduct(call[s].user, call[s].product)
       IN  IF item # NoValue THEN Return(s, item)
           ELSE IF call[s].op = "addToCart" THEN Throw(s, "InternalServerError")
           ELSE Throw(s, "NotFoundError")
    /\ UNCHANGED <<pricingVars, catalogVars, carts, cart_items, profiles, before, http>>

\* removeFromCart, also reached from updateCartItem with qty 0: its own
\* getOrCreateCart finds the cart the caller just got, then the line is deleted
Delete(s) ==
    /\ call[s].pc = "delete"
    /\ cart_items' = [cart_items EXCEPT ![call[s].user][call[s].product] = NoRow]
    /\ Return(s, NoValue)
    /\ UNCHANGED <<pricingVars, catalogVars, carts, profiles, before, http>>

\* clearCart: delete every line of the cart
DeleteAll(s) ==
    /\ call[s].pc = "delete_all"
    /\ cart_items' = [cart_items EXCEPT ![call[s].user] = [p \in ProductIds |-> NoRow]]
    /\ Return(s, NoValue)
    /\ UNCHANGED <<pricingVars, catalogVars, carts, profiles, before, http>>

\* getCartSummary: the lines of the cart are read and priced
Summary(s) ==
    /\ call[s].pc = "summary"
    /\ Return(s, NoValue)
    /\ UNCHANGED <<pricingVars, catalogVars, carts, cart_items, profiles, before, http>>

\* The response is sent and the slot is free for the next request.
Finish(s) ==
    /\ call[s].pc = "done"
    /\ call' = [call EXCEPT ![s] = IdleCall]
    /\ before' = EmptyCartItems
    /\ UNCHANGED <<pricingVars, catalogVars, carts, cart_items, profiles, http>>

\* InventoryService.updateInventory: a negative stock is rejected, otherwise
\* the inventory row of the product, if there is one, gets the new stock
updateInventory(productId, stock) ==
    IF stock < 0 \/ inventory[productId] = NoRow THEN inventory
    ELSE [inventory EXCEPT ![productId] =
            InventoryRow(stock, Val(@).low_stock_threshold)]

\* The product whose stock the admin rewrites while the carts are in use.
RestockedProducts == {1}

UpdateInventory ==
    /\ \E p \in RestockedProducts, stock \in (-1)..MaxStock :
           inventory' = updateInventory(p, stock)
    /\ UNCHANGED <<pricingVars, products, product_images, carts, cart_items, profiles, call, before,
                   http>>

ServiceStep(s) ==
    \/ CartFind(s)
    \/ CartInsert(s)
    \/ ValidateProduct(s)
    \/ ValidateStock(s)
    \/ ItemFind(s)
    \/ RevalidateStock(s)
    \/ ItemIncrement(s)
    \/ ItemInsert(s)
    \/ ItemUpdate(s)
    \/ Fetch(s)
    \/ Delete(s)
    \/ DeleteAll(s)

----------------------------------------------------------------------------
(* Requests: the routers' middleware, then the handler                     *)

Roles == {"user", "admin"}

\* What the token service knows of a token: how jwt.verify ends for it, how
\* supabase.auth.getUser ends for it, and whose it is.
Tokens ==
    [verify : {"ok"}, lookup : {"user"}, user : Users]
    \cup [verify : {"JsonWebTokenError", "TokenExpiredError", "NotBeforeError"},
          lookup : {"user"}, user : {"u1"}]
    \cup [verify : {"ok"}, lookup : {"error", "throws"}, user : {"u1"}]

\* The Authorization header, split at its spaces; NoValue when it is absent.
Authorizations ==
    {NoValue}
    \cup {Some(<<"Bearer", t>>) : t \in Tokens}
    \cup {Some(<<"Basic", t>>) : t \in [verify : {"ok"}, lookup : {"user"}, user : {"u1"}]}
    \cup {Some(<<"Bearer">>)}
    \cup {Some(<<"Bearer", t, "x">>) : t \in [verify : {"ok"}, lookup : {"user"}, user : {"u1"}]}

extractToken(authHeader) ==
    IF authHeader = NoValue THEN NoValue
    ELSE LET parts == Val(authHeader) IN
         IF Len(parts) # 2 \/ parts[1] # "Bearer" THEN NoValue
         ELSE Some(parts[2])

\* The middleware each router installs before its routes.
cartRoutes == <<"authGuard">>
adminRoutes == <<"authGuard", "adminGuard">>
productAdminRoutes == <<"authGuard", "adminGuard">>

Middleware(router) ==
    IF router = "cart" THEN cartRoutes
    ELSE IF router = "admin" THEN adminRoutes
    ELSE productAdminRoutes

IdleHttp ==
    [pc |-> "idle", router |-> "none", route |-> "none", product |-> 0,
     qty |-> 0, target |-> "none", role |-> "none", active |-> FALSE,
     authorization |-> NoValue, guard |-> 0, user |-> NoValue,
     profile |-> NoValue, lookupFailed |-> FALSE, nextBy |-> {},
     handlerRan |-> FALSE, status |-> 0, arrival |-> << >>,
     thrown |-> NoValue, body |-> NoValue]

\* The requests the three routers serve.
CartRequests ==
    [router : {"cart"}, route : {"getCart", "clearCart", "getPricingInfo"},
     product : {0}, qty : {0}, target : {"none"}, role : {"none"},
     active : {FALSE}]
    \cup [router : {"cart"}, route : {"addToCart", "updateCartItem"},
          product : {1}, qty : {0, 1}, target : {"none"}, role : {"none"},
          active : {FALSE}]
    \cup [router : {"cart"}, route : {"removeFromCart"},
          product : {1}, qty : {0}, target : {"none"}, role : {"none"},
          active : {FALSE}]

AdminRequests ==
    [router : {"admin"}, route : {"updateUserRole"}, product : {0}, qty : {0},
     target : Users \cup {"u0"}, role : Roles \cup {"owner"}, active : {FALSE}]
    \cup [router : {"admin"}, route : {"getStats"}, product : {0}, qty : {0},
          target : {"none"}, role : {"none"}, active : {FALSE}]
    \cup [router : {"admin_catalog"}, route : {"updateInventory"},
          product : RestockedProducts, qty : (-1)..MaxStock,
          target : {"none"}, role : {"none"}, active : {FALSE}]
    \cup [router : {"admin_catalog"}, route : {"updateProduct"},
          product : {2, 4}, qty : {0}, target : {"none"}, role : {"none"},
          active : BOOLEAN]

Requests == CartRequests \cup AdminRequests

\* The tables as a request finds them.
Tables == <<carts, cart_items, products, inventory, profiles>>

\* res.status(status).json(...): the request is answered.
Reply(h, status) == [h EXCEPT !.pc = "responded", !.status = status]

\* next(): the request moves on to the next middleware or to the handler.
CallNext(h) ==
    [h EXCEPT !.nextBy = @ \cup {Middleware(h.router)[h.guard]},
              !.guard = @ + 1,
              !.pc = IF h.guard + 1 > Len(Middleware(h.router))
                     THEN "handler" ELSE "middleware"]

\* The catch clause of authGuard, by the name of the error caught.
authGuardCatch(name) ==
    IF name = "JsonWebTokenError" THEN 401
    ELSE IF name = "TokenExpiredError" THEN 401
    ELSE 500

authGuard(h) ==
    LET token == extractToken(h.authorization) IN
    IF token = NoValue THEN Reply(h, 401)
    ELSE IF Val(token).verify # "ok"
         THEN Reply(h, authGuardCatch(Val(token).verify))
    ELSE IF Val(token).lookup = "throws" THEN Reply(h, authGuardCatch("Error"))
    ELSE IF Val(token).lookup = "error" THEN Reply(h, 401)
    ELSE CallNext([h EXCEPT !.user = Some(Val(token).user)])

\* A row of profiles; terms_accepted_at is null (NoValue) or a timestamp.
ProfileRow(role, terms_accepted_at) ==
    Row([role |-> role, terms_accepted_at |-> terms_accepted_at])

\* ProfileService.getProfile: the profile row of the user, or none
getProfile(userId) == profiles[userId]

\* The update of ProfileService.updateProfile: the columns given (role, or
\* terms_accepted_at, NoValue when not given) are set in the user's row; the
\* table is unchanged when the user has no row.
updateProfile(userId, role, terms_accepted_at) ==
    IF profiles[userId] = NoRow THEN profiles
    ELSE [profiles EXCEPT ![userId] =
            ProfileRow(IF role = NoValue THEN Val(@).role ELSE Val(role),
                       IF terms_accepted_at = NoValue
                       THEN Val(@).terms_accepted_at ELSE terms_accepted_at)]

adminGuard_cachedProfile(h, failed) ==
    IF h.user = NoValue THEN Reply(h, 401)
    ELSE IF failed THEN Reply([h EXCEPT !.lookupFailed = TRUE], 500)
    ELSE LET profile == h.arrival[5][Val(h.user)] IN
         IF profile = NoRow THEN Reply(h, 403)
         ELSE IF Val(profile).role # "admin" THEN Reply(h, 403)
         ELSE CallNext([h EXCEPT !.profile = profile])

adminGuard_anyProfile(h, failed) ==
    IF h.user = NoValue THEN Reply(h, 401)
    ELSE IF failed THEN Reply([h EXCEPT !.lookupFailed = TRUE], 500)
    ELSE LET profile == getProfile(Val(h.user)) IN
         IF profile = NoRow THEN Reply(h, 403)
         ELSE CallNext([h EXCEPT !.profile = profile])

\* failed: ProfileService.getProfile threw.
adminGuard(h, failed) ==
    IF h.user = NoValue THEN Reply(h, 401)
    ELSE IF failed THEN Reply([h EXCEPT !.lookupFailed = TRUE], 500)
    ELSE LET profile == getProfile(Val(h.user)) IN
         IF profile = NoRow THEN Reply(h, 403)
         ELSE IF Val(profile).role # "admin" THEN Reply(h, 403)
         ELSE CallNext([h EXCEPT !.profile = profile])

storeVars == <<products, inventory, product_images, carts, cart_items, profiles>>

\* A request arrives at its router.
Receive ==
    /\ http.pc = "idle"
    /\ \E r \in Requests, authorization \in Authorizations :
           http' = [IdleHttp EXCEPT !.pc = "middleware",
                                    !.router = r.router,
                                    !.route = r.route,
                                    !.product = r.product,
                                    !.qty = r.qty,
                                    !.target = r.target,
                                    !.role = r.role,
                                    !.active = r.active,
                                    !.authorization = authorization,
                                    !.guard = 1,
                                    !.arrival = Tables]
    /\ UNCHANGED <<pricingVars, storeVars, call, before>>

AuthGuard ==
    /\ http.pc = "middleware"
    /\ Middleware(http.router)[http.guard] = "authGuard"
    /\ http' = authGuard(http)
    /\ UNCHANGED <<pricingVars, storeVars, call, before>>

AdminGuard ==
    /\ http.pc = "middleware"
    /\ Middleware(http.router)[http.guard] = "adminGuard"
    /\ \E failed \in BOOLEAN : http' = adminGuard(http, failed)
    /\ UNCHANGED <<pricingVars, storeVars, call, before>>

\* GET /admin/stats with the token of a user arrives.
ReceiveAdmin ==
    /\ http.pc = "idle"
    /\ \E u \in Users :
           http' = [IdleHttp EXCEPT
                      !.pc = "middleware",
                      !.router = "admin",
                      !.route = "getStats",
                      !.authorization =
                          Some(<<"Bearer", [verify |-> "ok", lookup |-> "user",
                                            user |-> u]>>),
                      !.guard = 1,
                      !.arrival = Tables]
    /\ UNCHANGED <<pricingVars, storeVars, call, before>>

\* A CartController handler that works for req.user: without a user the
\* read of user.id throws inside the handler's try block.
CartHandler ==
    /\ http.pc = "handler"
    /\ http.router = "cart"
    /\ http.route # "getPricingInfo"
    /\ IF http.user = NoValue
       THEN /\ http' = Reply([http EXCEPT !.handlerRan = TRUE], 500)
            /\ UNCHANGED <<call, before>>
       ELSE /\ Invoke(1, [op |-> http.route, user |-> Val(http.user),
                          product |-> http.product, qty |-> http.qty])
            /\ http' = [http EXCEPT !.pc = "running", !.handlerRan = TRUE]
            /\ before' = cart_items
    /\ UNCHANGED <<pricingVars, storeVars>>

\* The service returned or threw: the controller answers.
CartHandlerReturn ==
    /\ http.pc = "running"
    /\ call[1].pc = "done"
    /\ http' = Reply(http, Status(call[1]))
    /\ call' = [call EXCEPT ![1] = IdleCall]
    /\ before' = EmptyCartItems
    /\ UNCHANGED <<pricingVars, storeVars>>

GetPricingInfo ==
    /\ http.pc = "handler"
    /\ http.route = "getPricingInfo"
    /\ http' = Reply([http EXCEPT !.handlerRan = TRUE], 200)
    /\ UNCHANGED <<pricingVars, storeVars, call, before>>

GetStats ==
    /\ http.pc = "handler"
    /\ http.route = "getStats"
    /\ http' = Reply([http EXCEPT !.handlerRan = TRUE], 200)
    /\ UNCHANGED <<pricingVars, storeVars, call, before>>

\* PATCH /admin/users/:userId/role
UpdateUserRole ==
    /\ http.pc = "handler"
    /\ http.route = "updateUserRole"
    /\ IF http.role \notin Roles
       THEN /\ http' = Reply([http EXCEPT !.handlerRan = TRUE], 400)
            /\ UNCHANGED profiles
       ELSE IF http.target \notin Users
       THEN /\ http' = Reply([http EXCEPT !.handlerRan = TRUE], 404)
            /\ UNCHANGED profiles
       ELSE IF profiles[http.target] = NoRow
       THEN /\ http' = Reply([http EXCEPT !.handlerRan = TRUE], 500)
            /\ UNCHANGED profiles
       ELSE /\ http' = Reply([http EXCEPT !.handlerRan = TRUE], 200)
            /\ profiles' = updateProfile(http.target, Some(http.role), NoValue)
    /\ UNCHANGED <<pricingVars, catalogVars, carts, cart_items, call, before>>

\* PUT /admin/inventory/:productId
UpdateInventoryHandler ==
    /\ http.pc = "handler"
    /\ http.route = "updateInventory"
    /\ http' = Reply([http EXCEPT !.handlerRan = TRUE],
                     IF http.qty < 0 THEN 400
                     ELSE IF inventory[http.product] = NoRow THEN 500
                     ELSE 200)
    /\ inventory' = updateInventory(http.product, http.qty)
    /\ UNCHANGED <<pricingVars, products, product_images, carts, cart_items, profiles, call, before>>

\* PUT /admin/products/:id with a new value of active
UpdateProduct ==
    /\ http.pc = "handler"
    /\ http.route = "updateProduct"
    /\ IF products[http.product] = NoRow
       THEN /\ http' = Reply([http EXCEPT !.handlerRan = TRUE], 404)
            /\ UNCHANGED products
       ELSE /\ http' = Reply([http EXCEPT !.handlerRan = TRUE], 200)
            /\ products' = [products EXCEPT ![http.product] =
                                ProductRow(Val(@).sku, http.active)]
    /\ UNCHANGED <<pricingVars, inventory, product_images, carts, cart_items, profiles, call, before>>

\* The answer is on the wire; the next request can arrive.
Close ==
    /\ http.pc = "responded"
    /\ http' = IdleHttp
    /\ UNCHANGED <<pricingVars, storeVars, call, before>>

\* The errors a service can throw into a controller's catch clause.
Messages == {"Stock cannot be negative", "Failed to update inventory"}

Errors ==
    {NotFoundError(r, i) : r \in {"Product", "Inventory", "Profile"},
                           i \in {NoValue, Some(1), Some(4)}}
    \cup {ConflictError(r, "SKU", v) : r \in {"Product", "Category"},
                                       v \in {"sku1", "sku2"}}
    \cup {ValidationError(m, f) : m \in Messages, f \in {NoValue, Some("stock")}}
    \cup {UnauthorizedError(m) : m \in Messages}
    \cup {ForbiddenError(m) : m \in Messages}
    \cup {InsufficientDataError("stock", a, r) : a \in 0..MaxStock, r \in 1..MaxReqQty}
    \cup {BusinessRuleError(m) : m \in Messages}
    \cup {InternalServerError(m) : m \in Messages}
    \cup {OtherError(n, m, c, sc) :
             n \in {"Error", "TypeError", "PostgrestError"}, m \in Messages,
             c \in {NoValue, Some("23505"), Some("NOT_FOUND")},
             sc \in {NoValue, Some(404), Some(409)}}

\* A service call of a controller throws.
HandlerThrows ==
    /\ http.pc = "idle"
    /\ \E error \in Errors :
           http' = [IdleHttp EXCEPT !.pc = "catch", !.thrown = Some(error)]
    /\ UNCHANGED <<pricingVars, storeVars, call, before>>

\* The catch clause: res.status(getHttpStatusCode(error))
\*                      .json(formatErrorResponse(error))
HandlerCatch ==
    /\ http.pc = "catch"
    /\ http' = [Reply(http, getHttpStatusCode(Val(http.thrown)))
                  EXCEPT !.body = Some(formatErrorResponse(Val(http.thrown)))]
    /\ UNCHANGED <<pricingVars, storeVars, call, before>>

----------------------------------------------------------------------------
(* Inventory service calls, one store query per step                       *)

\* The quantities and adjustments a caller may pass: any sign.
Adjustments == (-MaxReqQty)..MaxReqQty

InventoryOps == {"adjustStock", "reserveStock", "releaseStock"}

\* The products whose stock is adjusted: product 1 has an inventory row,
\* product 3 has none.
AdjustedProducts == {1, 3}

\* reserveStock(p, q) is adjustStock(p, -q) after the availability check,
\* releaseStock(p, q) is adjustStock(p, q).
adjustment(c) == IF c.op = "reserveStock" THEN 0 - c.qty ELSE c.qty

StartInventoryCall(s) ==
    /\ call[s].pc = "idle"
    /\ \E op \in InventoryOps, p \in AdjustedProducts, q \in Adjustments :
           call' = [call EXCEPT ![s] =
               [IdleCall EXCEPT !.op = op, !.product = p, !.qty = q,
                                !.pc = IF op = "reserveStock"
                                       THEN "reserve_check" ELSE "adjust_read"]]
    /\ UNCHANGED <<pricingVars, storeVars, before, http>>

\* reserveStock: checkStockAvailability, InsufficientDataError when the
\* stock read is below the quantity
ReserveCheck(s) ==
    /\ call[s].pc = "reserve_check"
    /\ LET availability == checkStockAvailability(call[s].product, call[s].qty)
       IN  IF availability.available
           THEN Validated(s, availability.currentStock, "adjust_read")
           ELSE call' = [call EXCEPT
                    ![s].pc = "done",
                    ![s].available_stock = Some(availability.currentStock),
                    ![s].error = "InsufficientDataError"]
    /\ UNCHANGED <<pricingVars, storeVars, before, http>>

\* adjustStock: getInventory and the new stock computed from what was read
\* (stock levels above MaxStock are outside the model)
AdjustRead(s) ==
    /\ call[s].pc = "adjust_read"
    /\ LET currentInventory == inventory[call[s].product]
           newStock == Val(currentInventory).stock + adjustment(call[s])
       IN  /\ currentInventory # NoRow => newStock <= MaxStock
           /\ IF currentInventory = NoRow
              THEN call' = [call EXCEPT ![s].pc = "done",
                                        ![s].error = "NotFoundError"]
              ELSE IF newStock < 0
              THEN call' = [call EXCEPT ![s].pc = "done",
                                        ![s].error = "InsufficientDataError"]
              ELSE call' = [call EXCEPT ![s].pc = "adjust_write",
                                        ![s].existing = Some(newStock)]
    /\ UNCHANGED <<pricingVars, storeVars, before, http>>

\* adjustStock: update({stock: newStock}).eq(product_id).select().single()
AdjustWrite(s) ==
    /\ call[s].pc = "adjust_write"
    /\ IF inventory[call[s].product] = NoRow
       THEN /\ call' = [call EXCEPT ![s].pc = "done", ![s].existing = NoValue,
                                    ![s].error = "InternalServerError"]
            /\ UNCHANGED inventory
       ELSE /\ inventory' = [inventory EXCEPT ![call[s].product] =
                    InventoryRow(Val(call[s].existing),
                                 Val(@).low_stock_threshold)]
            /\ Return(s, call[s].existing)
    /\ UNCHANGED <<pricingVars, products, product_images, carts, cart_items, profiles, before, http>>

----------------------------------------------------------------------------
(* Product service calls, one store query per step                         *)

\* ProductService.getProductBySku: the ids of the rows with this sku
getProductBySku(sku) ==
    {p \in ProductIds : products[p] # NoRow /\ Val(products[p]).sku = sku}

\* The id the products table gives to a new row: ids are handed out in
\* order, and the model has room for the ids of ProductIds.
FreeIds == {p \in ProductIds : products[p] = NoRow}
NextId == CHOOSE p \in FreeIds : \A q \in FreeIds : p <= q

\* createProduct requests: a sku in use or a new one, initial_stock and
\* low_stock_threshold given or omitted.
CreateProductRequests ==
    [sku : {"sku1", "sku4"},
     initial_stock : {NoValue, Some(-1), Some(1)},
     low_stock_threshold : {NoValue, Some(2)}]

StartCreateProduct(s) ==
    /\ call[s].pc = "idle"
    /\ \E r \in CreateProductRequests :
           call' = [call EXCEPT ![s] =
               [IdleCall EXCEPT !.op = "createProduct", !.sku = Some(r.sku),
                                !.initial_stock = r.initial_stock,
                                !.low_stock_threshold = r.low_stock_threshold,
                                !.pc = "sku_check"]]
    /\ UNCHANGED <<pricingVars, storeVars, before, http>>

\* createProduct and updateProduct: getProductBySku, ConflictError when a
\* product has the sku
SkuCheck(s) ==
    /\ call[s].pc = "sku_check"
    /\ IF getProductBySku(Val(call[s].sku)) # {}
       THEN call' = [call EXCEPT ![s].pc = "done", ![s].existing = NoValue,
                                 ![s].error = "ConflictError"]
       ELSE Goto(s, IF call[s].op = "createProduct"
                    THEN "product_insert" ELSE "product_update")
    /\ UNCHANGED <<pricingVars, storeVars, before, http>>

\* createProduct: insert into products; the unique key on sku refuses a
\* second row with the sku, which createProduct rethrows as
\* InternalServerError
ProductInsert(s) ==
    /\ call[s].pc = "product_insert"
    /\ FreeIds # {}
    /\ IF getProductBySku(Val(call[s].sku)) # {}
       THEN /\ call' = [call EXCEPT ![s].pc = "done",
                                    ![s].error = "InternalServerError"]
            /\ UNCHANGED products
       ELSE /\ products' = [products EXCEPT ![NextId] =
                                ProductRow(Val(call[s].sku), TRUE)]
            /\ call' = [call EXCEPT ![s].pc = "inventory_insert",
                                    ![s].product = NextId]
    /\ UNCHANGED <<pricingVars, inventory, product_images, carts, cart_items,
                   profiles, before, http>>

\* InventoryService.createInventory with the defaults of createProduct
createInventory(productId, initial_stock, low_stock_threshold) ==
    [inventory EXCEPT ![productId] =
        InventoryRow(IF initial_stock = NoValue THEN 0 ELSE Val(initial_stock),
                     IF low_stock_threshold = NoValue
                     THEN DefaultLowStockThreshold
                     ELSE Val(low_stock_threshold))]

InventoryInsert_noRow(s) ==
    /\ call[s].pc = "inventory_insert"
    /\ Goto(s, "product_fetch")
    /\ UNCHANGED <<pricingVars, storeVars, before, http>>

\* createProduct: createInventory(product.id, initial_stock, low_stock_threshold).
\* The store answers the insert with the row or with an error;
\* createInventory throws InternalServerError on the error and createProduct's
\* catch rethrows it as InternalServerError, with no other statement
InventoryInsert(s) ==
    /\ call[s].pc = "inventory_insert"
    /\ \E answer \in {"data", "error"} :
           IF answer = "error"
           THEN /\ call' = [call EXCEPT ![s].pc = "done",
                                        ![s].error = "InternalServerError"]
                /\ UNCHANGED inventory
           ELSE /\ inventory' = createInventory(call[s].product,
                                                call[s].initial_stock,
                                                call[s].low_stock_threshold)
                /\ Goto(s, "product_fetch")
    /\ UNCHANGED <<pricingVars, products, product_images, carts, cart_items,
                   profiles, before, http>>

\* createProduct and updateProduct: return getProductById(id)
ProductFetch(s) ==
    /\ call[s].pc = "product_fetch"
    /\ Return(s, IF products[call[s].product] = NoRow THEN NoValue
                 ELSE Some(call[s].product))
    /\ UNCHANGED <<pricingVars, storeVars, before, http>>

\* updateProduct requests: product 2 or an id without a row, and updates
\* without a sku, with the product's own sku, another product's, or a new one.
UpdateProductRequests ==
    [product : {2, 4}, sku : {NoValue, Some("sku1"), Some("sku2"), Some("sku5")}]

StartUpdateProduct(s) ==
    /\ call[s].pc = "idle"
    /\ \E r \in UpdateProductRequests :
           call' = [call EXCEPT ![s] =
               [IdleCall EXCEPT !.op = "updateProduct", !.product = r.product,
                                !.sku = r.sku, !.pc = "product_find"]]
    /\ UNCHANGED <<pricingVars, storeVars, before, http>>

ProductFind_alwaysCheck(s) ==
    /\ call[s].pc = "product_find"
    /\ IF products[call[s].product] = NoRow
       THEN call' = [call EXCEPT ![s].pc = "done", ![s].error = "NotFoundError"]
       ELSE IF call[s].sku # NoValue
       THEN Goto(s, "sku_check")
       ELSE Goto(s, "product_update")
    /\ UNCHANGED <<pricingVars, storeVars, before, http>>

\* updateProduct: getProductById, NotFoundError without a row; the sku is
\* looked up only when the updates carry one that differs from the product's
ProductFind(s) ==
    /\ call[s].pc = "product_find"
    /\ IF products[call[s].product] = NoRow
       THEN call' = [call EXCEPT ![s].pc = "done", ![s].error = "NotFoundError"]
       ELSE IF /\ call[s].sku # NoValue
               /\ Val(call[s].sku) # Val(products[call[s].product]).sku
       THEN Goto(s, "sku_check")
       ELSE Goto(s, "product_update")
    /\ UNCHANGED <<pricingVars, storeVars, before, http>>

\* updateProduct: update(updates).eq(id).select().single(); single() reports
\* an error without a row, the unique key on sku one for a sku in use
ProductUpdate(s) ==
    /\ call[s].pc = "product_update"
    /\ LET id == call[s].product IN
       IF \/ products[id] = NoRow
          \/ /\ call[s].sku # NoValue
             /\ getProductBySku(Val(call[s].sku)) \ {id} # {}
       THEN /\ call' = [call EXCEPT ![s].pc = "done",
                                    ![s].error = "InternalServerError"]
            /\ UNCHANGED products
       ELSE /\ products' = [products EXCEPT ![id] =
                   ProductRow(IF call[s].sku = NoValue THEN Val(@).sku
                              ELSE Val(call[s].sku),
                              Val(@).active)]
            /\ Goto(s, "product_fetch")
    /\ UNCHANGED <<pricingVars, inventory, product_images, carts, cart_items,
                   profiles, before, http>>

\* deleteProduct requests: products with rows that refer to them, and an id
\* without a row.
DeletedProducts == {1, 2, 4}

StartDeleteProduct(s) ==
    /\ call[s].pc = "idle"
    /\ \E p \in DeletedProducts :
           call' = [call EXCEPT ![s] =
               [IdleCall EXCEPT !.op = "deleteProduct", !.product = p,
                                !.pc = "delete_find"]]
    /\ UNCHANGED <<pricingVars, storeVars, before, http>>

\* deleteProduct: getProductById, NotFoundError without a row
DeleteFind(s) ==
    /\ call[s].pc = "delete_find"
    /\ IF products[call[s].product] = NoRow
       THEN call' = [call EXCEPT ![s].pc = "done", ![s].error = "NotFoundError"]
       ELSE Goto(s, "delete_images")
    /\ UNCHANGED <<pricingVars, storeVars, before, http>>

\* deleteProduct: ImageService.deleteAllProductImages
DeleteImages(s) ==
    /\ call[s].pc = "delete_images"
    /\ product_images' = [product_images EXCEPT ![call[s].product] = 0]
    /\ Goto(s, "delete_inventory")
    /\ UNCHANGED <<pricingVars, products, inventory, carts, cart_items, profiles,
                   before, http>>

\* deleteProduct: InventoryService.deleteInventory
DeleteInventory(s) ==
    /\ call[s].pc = "delete_inventory"
    /\ inventory' = [inventory EXCEPT ![call[s].product] = NoRow]
    /\ Goto(s, "delete_product")
    /\ UNCHANGED <<pricingVars, products, product_images, carts, cart_items,
                   profiles, before, http>>

\* The cart lines that refer to a product.
CartLinesOf(productId) ==
    {u \in Users : cart_items[u][productId] # NoRow}

DeleteProductRow_noForeignKey(s) ==
    /\ call[s].pc = "delete_product"
    /\ products' = [products EXCEPT ![call[s].product] = NoRow]
    /\ Return(s, NoValue)
    /\ UNCHANGED <<pricingVars, inventory, product_images, carts, cart_items,
                   profiles, before, http>>

\* deleteProduct: delete from products.  The rows of product_images go with
\* the product (on delete cascade).  cart_items refers to products by a
\* foreign key, the one its select of products!inner embeds through: with
\* lines of the product in carts the store either deletes them too
\* (cascade) or refuses the delete (restrict), which deleteProduct rethrows
\* as InternalServerError.
DeleteProductRow(s) ==
    /\ call[s].pc = "delete_product"
    /\ \E onDelete \in {"cascade", "restrict"} :
           IF onDelete = "restrict" /\ CartLinesOf(call[s].product) # {}
           THEN /\ call' = [call EXCEPT ![s].pc = "done",
                                        ![s].error = "InternalServerError"]
                /\ UNCHANGED <<products, product_images, cart_items>>
           ELSE /\ products' = [products EXCEPT ![call[s].product] = NoRow]
                /\ product_images' = [product_images EXCEPT ![call[s].product] = 0]
                /\ cart_items' = [u \in Users |->
                                    [cart_items[u] EXCEPT ![call[s].product] = NoRow]]
                /\ Return(s, NoValue)
    /\ UNCHANGED <<pricingVars, inventory, carts, profiles, before, http>>

\* Bound of the model: the image rows a product can have.
MaxImages == 1

\* ImageService.addImageToProduct: a row of product_images for a product that
\* exists (the foreign key refuses one for a product that does not)
AddImage ==
    /\ \E p \in DeletedProducts :
           /\ products[p] # NoRow
           /\ product_images[p] < MaxImages
           /\ product_images' = [product_images EXCEPT ![p] = @ + 1]
    /\ UNCHANGED <<pricingVars, products, inventory, carts, cart_items, profiles,
                   call, before, http>>

\* The error object a product service call has thrown.
thrown(c) ==
    IF c.error = "ConflictError"
    THEN ConflictError("Product", "SKU", Val(c.sku))
    ELSE IF c.error = "NotFoundError"
    THEN NotFoundError("Product", Some(c.product))
    ELSE InternalServerError("Failed")

\* The status the product admin controllers answer with.
ProductControllerStatus(c) ==
    IF c.error # "none" THEN getHttpStatusCode(thrown(c))
    ELSE IF c.op = "createProduct" THEN 201
    ELSE 200

----------------------------------------------------------------------------
(* Profile service calls, one store query per step                         *)

\* new Date().toISOString() of acceptTerms
Now == 1

\* getMe calls getOrCreateProfile(user.id) without initial data.
StartGetOrCreateProfile(s) ==
    /\ call[s].pc = "idle"
    /\ \E u \in Users :
           call' = [call EXCEPT ![s] =
               [IdleCall EXCEPT !.op = "getOrCreateProfile", !.user = u,
                                !.pc = "profile_find"]]
    /\ UNCHANGED <<pricingVars, storeVars, before, http>>

\* updateUserRole calls updateProfile(userId, {role}) for a valid role.
StartUpdateUserRole(s) ==
    /\ call[s].pc = "idle"
    /\ \E u \in Users, r \in Roles :
           call' = [call EXCEPT ![s] =
               [IdleCall EXCEPT !.op = "updateUserRole", !.user = u,
                                !.role = Some(r), !.pc = "profile_update"]]
    /\ UNCHANGED <<pricingVars, storeVars, before, http>>

StartAcceptTerms(s) ==
    /\ call[s].pc = "idle"
    /\ \E u \in Users :
           call' = [call EXCEPT ![s] =
               [IdleCall EXCEPT !.op = "acceptTerms", !.user = u,
                                !.pc = "profile_update"]]
    /\ UNCHANGED <<pricingVars, storeVars, before, http>>

\* getOrCreateProfile: getProfile; an existing profile is returned as read
ProfileFind(s) ==
    /\ call[s].pc = "profile_find"
    /\ IF getProfile(call[s].user) # NoRow
       THEN Return(s, getProfile(call[s].user))
       ELSE Goto(s, "profile_upsert")
    /\ UNCHANGED <<pricingVars, storeVars, before, http>>

\* The row getOrCreateProfile writes when it was given no initial data.
profileData == ProfileRow("user", NoValue)

ProfileUpsert_insert(s) ==
    /\ call[s].pc = "profile_upsert"
    /\ IF profiles[call[s].user] = NoRow
       THEN /\ profiles' = [profiles EXCEPT ![call[s].user] = profileData]
            /\ Return(s, profileData)
       ELSE /\ UNCHANGED profiles
            /\ call' = [call EXCEPT ![s].pc = "done",
                                    ![s].error = "InternalServerError"]
    /\ UNCHANGED <<pricingVars, catalogVars, carts, cart_items, before, http>>

\* getOrCreateProfile: upsert on user_id with ignoreDuplicates false, that is
\* insert, or on conflict set the columns of the row to those of profileData
ProfileUpsert(s) ==
    /\ call[s].pc = "profile_upsert"
    /\ profiles' = [profiles EXCEPT ![call[s].user] = profileData]
    /\ Return(s, profileData)
    /\ UNCHANGED <<pricingVars, catalogVars, carts, cart_items, before, http>>

\* updateProfile: update ... eq(user_id).select().single(); without a row
\* single() reports an error, rethrown as InternalServerError
ProfileUpdate(s) ==
    /\ call[s].pc = "profile_update"
    /\ LET terms == IF call[s].op = "acceptTerms" THEN Some(Now) ELSE NoValue
       IN  /\ profiles' = updateProfile(call[s].user, call[s].role, terms)
           /\ IF profiles[call[s].user] = NoRow
              THEN call' = [call EXCEPT ![s].pc = "done",
                                        ![s].error = "InternalServerError"]
              ELSE Return(s, updateProfile(call[s].user, call[s].role,
                                           terms)[call[s].user])
    /\ UNCHANGED <<pricingVars, catalogVars, carts, cart_items, before, http>>

InitProfiles == [u \in Users |-> NoRow]

InitStore ==
    /\ products = InitProducts
    /\ inventory = InitInventory
    /\ product_images = InitProductImages
    /\ carts = {}
    /\ cart_items = EmptyCartItems
    /\ profiles = InitProfiles
    /\ call = [s \in Slots |-> IdleCall]
    /\ before = EmptyCartItems
    /\ http = IdleHttp

----------------------------------------------------------------------------
(* Specifications                                                          *)

\* calculatePricing applied to every bounded list of cart lines
InitPricing ==
    /\ items \in SeqsUpTo(CartLine, MaxLines)
    /\ calculation = NoValue
    /\ InitStore

SpecPricing == InitPricing /\ [][CalculatePricing]_vars

Init == PricingIdle /\ InitStore

\* cart requests, one at a time, with the stock moving under them
NextSeq == StartCall(1) \/ ServiceStep(1) \/ Finish(1) \/ UpdateInventory
SpecSeq == Init /\ [][NextSeq]_vars

\* overlapping cart requests, inventory rows never written
NextCart == \E s \in Slots : StartWritingCall(s) \/ ServiceStep(s) \/ Finish(s)
SpecCart == Init /\ [][NextCart]_vars

\* overlapping cart requests and inventory updates
Next == NextCart \/ UpdateInventory
Spec == Init /\ [][Next]_vars

\* requests through the routers' middleware, one at a time, for every
\* assignment of profiles to the users
InitAuth ==
    /\ PricingIdle
    /\ products = InitProducts
    /\ inventory = InitInventory
    /\ product_images = InitProductImages
    /\ carts = {}
    /\ cart_items = EmptyCartItems
    /\ profiles \in [Users -> {NoRow} \cup {ProfileRow(r, NoValue) : r \in Roles}]
    /\ call = [s \in Slots |-> IdleCall]
    /\ before = EmptyCartItems
    /\ http = IdleHttp

NextAuth ==
    \/ Receive
    \/ AuthGuard
    \/ AdminGuard
    \/ CartHandler
    \/ ServiceStep(1)
    \/ Summary(1)
    \/ CartHandlerReturn
    \/ GetPricingInfo
    \/ GetStats
    \/ UpdateUserRole
    \/ UpdateInventoryHandler
    \/ UpdateProduct
    \/ Close

SpecAuth == InitAuth /\ [][NextAuth]_vars

\* overlapping getOrCreateProfile calls, nothing else writing profiles
NextMe ==
    \E s \in Slots :
        StartGetOrCreateProfile(s) \/ ProfileFind(s) \/ ProfileUpsert(s) \/ Finish(s)

SpecMe == Init /\ [][NextMe]_vars

\* overlapping getOrCreateProfile, updateUserRole and acceptTerms calls
NextProfile ==
    \E s \in Slots :
        \/ StartGetOrCreateProfile(s)
        \/ StartUpdateUserRole(s)
        \/ StartAcceptTerms(s)
        \/ ProfileFind(s)
        \/ ProfileUpsert(s)
        \/ ProfileUpdate(s)
        \/ Finish(s)

SpecProfile == Init /\ [][NextProfile]_vars

\* admin requests, one after the other, while updateUserRole and
\* getOrCreateProfile calls of other requests write the profiles
RoleStep(s) ==
    \/ StartUpdateUserRole(s)
    \/ StartGetOrCreateProfile(s)
    \/ ProfileFind(s)
    \/ ProfileUpsert(s)
    \/ ProfileUpdate(s)
    \/ Finish(s)

NextRole ==
    \/ ReceiveAdmin
    \/ AuthGuard
    \/ AdminGuard
    \/ GetStats
    \/ Close
    \/ \E s \in Slots : RoleStep(s)

SpecRole == InitAuth /\ [][NextRole]_vars

\* errors thrown into a controller's catch clause
NextErrors == HandlerThrows \/ HandlerCatch

SpecErrors == Init /\ [][NextErrors]_vars

\* overlapping createProduct and updateProduct calls
CreateStep(s) ==
    \/ StartCreateProduct(s)
    \/ SkuCheck(s)
    \/ ProductInsert(s)
    \/ InventoryInsert(s)
    \/ ProductFetch(s)

UpdateStep(s) ==
    \/ StartUpdateProduct(s)
    \/ ProductFind(s)
    \/ ProductUpdate(s)

InventoryStep(s) ==
    \/ StartInventoryCall(s)
    \/ ReserveCheck(s)
    \/ AdjustRead(s)
    \/ AdjustWrite(s)

NextCatalog == \E s \in Slots : CreateStep(s) \/ UpdateStep(s) \/ Finish(s)

SpecCatalog == Init /\ [][NextCatalog]_vars

\* every writer of inventory: createProduct in one slot, adjustStock,
\* reserveStock and releaseStock in the other, updateInventory in between
NextInventory ==
    \/ CreateStep(1)
    \/ InventoryStep(2)
    \/ \E s \in Slots : Finish(s)
    \/ UpdateInventory

SpecInventory == Init /\ [][NextInventory]_vars

\* The addToCart requests of the overlapping runs: product 1, a quantity > 0.
AddToCartArgs ==
    {a \in CallArgs : a.op = "addToCart" /\ a.qty > 0 /\ a.product = 1}

\* The quantity of the line of product 1 that u1's cart starts with.
InitialQtys == 1..MaxReqQty

\* Stock that admits every quantity the line can reach.
AmpleStock == 4 * MaxReqQty

\* overlapping addToCart calls, one call per slot, on carts with or without a
\* line of the product; before keeps the lines the run started with
InitAddToCart ==
    /\ PricingIdle
    /\ products = InitProducts
    /\ inventory = [InitInventory EXCEPT
                       ![1] = InventoryRow(AmpleStock, DefaultLowStockThreshold)]
    /\ product_images = InitProductImages
    /\ carts \in {{}, Users}
    /\ cart_items \in {EmptyCartItems} \cup
           (IF carts = {} THEN {}
            ELSE {[EmptyCartItems EXCEPT !["u1"][1] = Row(q0)] : q0 \in InitialQtys})
    /\ before = cart_items
    /\ profiles = InitProfiles
    /\ call = [s \in Slots |-> IdleCall]
    /\ http = IdleHttp

StartAddToCart(s) ==
    /\ \E a \in AddToCartArgs : StartCallAs(s, a)
    /\ UNCHANGED before

AddToCartStep(s) ==
    \/ StartAddToCart(s)
    \/ CartFind(s)
    \/ CartInsert(s)
    \/ ValidateProduct(s)
    \/ ValidateStock(s)
    \/ ItemFind(s)
    \/ RevalidateStock(s)
    \/ ItemIncrement(s)
    \/ ItemInsert(s)
    \/ Fetch(s)

NextAddToCart == \E s \in Slots : AddToCartStep(s)

SpecAddToCart == InitAddToCart /\ [][NextAddToCart]_vars

\* overlapping deleteProduct calls, images being added, with cart lines that
\* refer to the products
InitDelete ==
    /\ PricingIdle
    /\ products = InitProducts
    /\ inventory = InitInventory
    /\ product_images = InitProductImages
    /\ carts = Users
    /\ cart_items \in {ci \in [Users -> [ProductIds -> {NoRow, Row(1)}]] :
                          \A u \in Users, p \in ProductIds :
                              ci[u][p] # NoRow => p \in {1, 2}}
    /\ profiles = InitProfiles
    /\ call = [s \in Slots |-> IdleCall]
    /\ before = EmptyCartItems
    /\ http = IdleHttp

DeleteStep(s) ==
    \/ StartDeleteProduct(s)
    \/ DeleteFind(s)
    \/ DeleteImages(s)
    \/ DeleteInventory(s)
    \/ DeleteProductRow(s)

NextDelete == (\E s \in Slots : DeleteStep(s) \/ Finish(s)) \/ AddImage

SpecDelete == InitDelete /\ [][NextDelete]_vars

\* overlapping stock adjustments and reservations, one call per slot
NextStock == \E s \in Slots : InventoryStep(s)

SpecStock == Init /\ [][NextStock]_vars

----------------------------------------------------------------------------
(* Properties                                                              *)

\* The totals of the priced cart, summed over its first n lines.
RECURSIVE RetailUpTo(_)
RetailUpTo(n) ==
    IF n = 0 THEN 0
    ELSE RetailUpTo(n - 1) + items[n].retail_price * items[n].qty

RECURSIVE DistributorUpTo(_)
DistributorUpTo(n) ==
    IF n = 0 THEN 0
    ELSE DistributorUpTo(n - 1) + items[n].distributor_price * items[n].qty

RECURSIVE UnitsUpTo(_)
UnitsUpTo(n) == IF n = 0 THEN 0 ELSE UnitsUpTo(n - 1) + items[n].qty

RetailTotal == RetailUpTo(Len(items))
DistributorTotal == DistributorUpTo(Len(items))
UnitsTotal == UnitsUpTo(Len(items))

Pesos(n) == n * MillsPerPeso

\* C1: calculatePricing returns tier 'distributor' with the subtotal at
\* distributor prices when the subtotal at retail prices is at least 5000
\* pesos (5000 exactly qualifies), and otherwise tier 'retail' with the
\* subtotal at retail prices; the static qualifiesForDistributorPricing
\* agrees with the tier.
C1_TierAndSubtotal ==
    calculation # NoValue =>
        LET c == Val(calculation)
        IN  /\ RetailTotal >= Pesos(5000) =>
                   c.tier = "distributor" /\ c.subtotal = DistributorTotal
            /\ RetailTotal < Pesos(5000) =>
                   c.tier = "retail" /\ c.subtotal = RetailTotal
            /\ qualifiesForDistributorPricing(RetailTotal) <=> c.tier = "distributor"

\* A cart whose retail subtotal is exactly 5000 pesos has been priced.
C1_Witness ==
    /\ calculation # NoValue
    /\ RetailTotal = Pesos(5000)
    /\ DistributorTotal # RetailTotal
    /\ Val(calculation).tier = "distributor"

\* C2: items_count is the number of units over all lines and meets_minimum
\* holds exactly when it is at least 7, whatever the tier; the empty cart
\* gives 0 items, meets_minimum false, tier 'retail', subtotal 0.
C2_ItemsCountAndMinimum ==
    calculation # NoValue =>
        LET c == Val(calculation)
        IN  /\ c.items_count = UnitsTotal
            /\ c.meets_minimum <=> UnitsTotal >= 7
            /\ meetsMinimumItems(c.items_count) <=> c.meets_minimum
            /\ items = << >> =>
                   /\ c.items_count = 0
                   /\ c.meets_minimum = FALSE
                   /\ c.tier = "retail"
                   /\ c.subtotal = 0

\* Two lines holding exactly 7 units have been priced at the retail tier.
C2_Witness ==
    /\ calculation # NoValue
    /\ Len(items) = 2
    /\ UnitsTotal = 7
    /\ Val(calculation).meets_minimum
    /\ Val(calculation).tier = "retail"

\* A finished call of the given service method.
Done(s, op) == call[s].pc = "done" /\ call[s].op = op

Succeeded(s) == call[s].error = "none"

Line(u, p) == cart_items[u][p]
LineBefore(u, p) == before[u][p]

\* Every cart line but the one of (u, p) is as it was when the call began.
OtherLinesUnchanged(u, p) ==
    \A v \in Users, r \in ProductIds :
        <<v, r>> # <<u, p>> => Line(v, r) = LineBefore(v, r)

C3_Lines ==
    \A u \in Users, p \in ProductIds :
        Line(u, p) # NoRow =>
            /\ inventory[p] # NoRow
            /\ 1 <= Val(Line(u, p))
            /\ Val(Line(u, p)) <= Val(inventory[p]).stock

C3_Rejected ==
    \A s \in Slots :
        LET c == call[s]
        IN  ( /\ c.op = "addToCart"
              /\ c.pc = "stock_again"
              /\ call'[s].pc # "stock_again"
              /\ Val(c.existing) + c.qty > Val(inventory[c.product]).stock )
            => /\ call'[s].pc = "done"
               /\ call'[s].error = "ValidationError"
               /\ Status(call'[s]) = 400
               /\ cart_items' = cart_items

\* C3: with the inventory rows never written, under any interleaving of
\* addToCart, updateCartItem, removeFromCart and clearCart every cart line has
\* 1 <= qty <= the stock of its product; and an addToCart whose re-validation
\* finds existing qty + requested qty above the stock ends with a validation
\* error (400) and writes no cart line.
C3_CartLinesWithinStock == []C3_Lines /\ [][C3_Rejected]_vars

\* An addToCart was refused although its own quantity fits the stock, because
\* the line it would add to is already there.
C3_Witness ==
    \E s \in Slots :
        /\ Done(s, "addToCart")
        /\ call[s].error = "ValidationError"
        /\ call[s].qty <= Val(inventory[call[s].product]).stock
        /\ Line(call[s].user, call[s].product) # NoRow
        /\ Val(Line(call[s].user, call[s].product)) + call[s].qty
               > Val(inventory[call[s].product]).stock

C5_AddOrIncrement ==
    \A s \in Slots :
        Done(s, "addToCart") /\ Succeeded(s) =>
            LET u == call[s].user
                p == call[s].product
            IN  /\ Line(u, p) # NoRow
                /\ Val(Line(u, p)) =
                       IF LineBefore(u, p) = NoRow THEN call[s].qty
                       ELSE Val(LineBefore(u, p)) + call[s].qty
                /\ call[s].result = Line(u, p)
                /\ OtherLinesUnchanged(u, p)

\* A successful addToCart has incremented a line that was there, in a cart
\* that holds another line too.
C5_Witness ==
    \E s \in Slots :
        /\ Done(s, "addToCart")
        /\ Succeeded(s)
        /\ LineBefore(call[s].user, call[s].product) # NoRow
        /\ \E r \in ProductIds \ {call[s].product} : Line(call[s].user, r) # NoRow

\* C6: POST /cart/items for a product id that does not exist answers 404 and
\* leaves the cart lines unchanged.
C6_MissingProduct404 ==
    \A s \in Slots :
        ( /\ Done(s, "addToCart")
          /\ ValidQty("addToCart", call[s].qty)
          /\ products[call[s].product] = NoRow )
        => Status(call[s]) = 404 /\ cart_items = before

\* C7: updateCartItem with qty 0 deletes the line of the product, whatever
\* the product id, and returns null; afterwards the cart has no line for the
\* product and the other lines are as they were.
C7_ZeroQtyDeletes ==
    \A s \in Slots :
        Done(s, "updateCartItem") /\ call[s].qty = 0 =>
            /\ Succeeded(s)
            /\ call[s].result = NoValue
            /\ call[s].available_stock = NoValue
            /\ Line(call[s].user, call[s].product) = NoRow
            /\ OtherLinesUnchanged(call[s].user, call[s].product)

\* updateCartItem with qty 0 has deleted a line of a cart that holds another.
C7_Witness ==
    \E s \in Slots :
        /\ Done(s, "updateCartItem")
        /\ call[s].qty = 0
        /\ LineBefore(call[s].user, call[s].product) # NoRow
        /\ \E r \in ProductIds \ {call[s].product} : Line(call[s].user, r) # NoRow

\* C8: updateCartItem(user, product, q) with q > 0 on an existing, active
\* product whose stock the call found sufficient: without a line of the
\* product in the cart it fails with NotFound (404) and creates no line; with
\* the line there it sets the line's qty to exactly q.
C8_UpdateSetsOrNotFound ==
    \A s \in Slots :
        LET c == call[s]
        IN  ( /\ Done(s, "updateCartItem")
              /\ c.qty > 0
              /\ validateProductExists(c.product).isActive
              /\ c.available_stock # NoValue
              /\ Val(c.available_stock) >= c.qty )
            => IF LineBefore(c.user, c.product) = NoRow
               THEN /\ c.error = "NotFoundError"
                    /\ Status(c) = 404
                    /\ cart_items = before
               ELSE /\ Succeeded(s)
                    /\ Line(c.user, c.product) = Row(c.qty)
                    /\ c.result = Some(c.qty)
                    /\ OtherLinesUnchanged(c.user, c.product)

\* updateCartItem has answered NotFound for a stocked, active product that
\* had no line in the cart.
C8_Witness ==
    \E s \in Slots :
        /\ Done(s, "updateCartItem")
        /\ call[s].qty > 0
        /\ call[s].error = "NotFoundError"
        /\ validateProductExists(call[s].product).isActive
        /\ LineBefore(call[s].user, call[s].product) = NoRow

\* The request carries "Bearer <token>", the token passes jwt.verify and the
\* user lookup returns its user.
BearerToken(h) ==
    /\ h.authorization # NoValue
    /\ Len(Val(h.authorization)) = 2
    /\ Val(h.authorization)[1] = "Bearer"

Authentic(h) ==
    /\ BearerToken(h)
    /\ Val(h.authorization)[2].verify = "ok"
    /\ Val(h.authorization)[2].lookup = "user"

\* The token fails jwt.verify, or the user lookup answers with an error or
\* without a user (a lookup that throws did not judge the token).
TokenFails(h) ==
    \/ Val(h.authorization)[2].verify # "ok"
    \/ Val(h.authorization)[2].lookup = "error"

\* C9: on the cart router a handler runs only after authGuard accepted the
\* request and set req.user to the token's user; a request without a
\* well-formed Bearer header, or whose token fails jwt.verify or the user
\* lookup, is answered 401, next() is never called for it, and the carts and
\* cart lines stay as the request found them.
C9_CartRoutesBehindAuthGuard ==
    (http.router = "cart") =>
        /\ http.handlerRan =>
               /\ Authentic(http)
               /\ "authGuard" \in http.nextBy
               /\ http.user = Some(Val(http.authorization)[2].user)
        /\ ~Authentic(http) =>
               /\ http.nextBy = {}
               /\ ~http.handlerRan
               /\ carts = http.arrival[1]
               /\ cart_items = http.arrival[2]
               /\ (http.pc = "responded" /\ (BearerToken(http) => TokenFails(http)))
                      => (http.status = 401)

AdminRouters == {"admin", "admin_catalog"}

\* The profile row of req.user as the request found it.
ProfileAtArrival(h) == h.arrival[5][Val(h.user)]

AdminTablesUntouched ==
    /\ products = http.arrival[3]
    /\ inventory = http.arrival[4]
    /\ profiles = http.arrival[5]

\* C10: on the admin routers a handler runs only when authGuard set req.user
\* and adminGuard read a profile of that user with role admin; adminGuard
\* answers 401 when there is no user, 403 when the profile is missing or has
\* another role, 500 when the profile lookup fails, and in these cases it
\* does not call next() and products, inventory and profiles stay as the
\* request found them.
C10_AdminRoutesBehindAdminGuard ==
    (http.router \in AdminRouters) =>
        /\ http.handlerRan =>
               /\ http.user # NoValue
               /\ http.nextBy = {"authGuard", "adminGuard"}
               /\ ProfileAtArrival(http) # NoRow
               /\ Val(ProfileAtArrival(http)).role = "admin"
               /\ http.profile = ProfileAtArrival(http)
        /\ ~http.handlerRan => AdminTablesUntouched
        /\ (http.pc = "responded" /\ ~http.handlerRan /\ http.user # NoValue) =>
               /\ "adminGuard" \notin http.nextBy
               /\ http.status = IF http.lookupFailed THEN 500 ELSE 403
               /\ ~http.lookupFailed =>
                      \/ ProfileAtArrival(http) = NoRow
                      \/ Val(ProfileAtArrival(http)).role # "admin"
        /\ (http.pc = "middleware" /\ http.guard = 2) =>
               \A failed \in BOOLEAN :
                   adminGuard([http EXCEPT !.user = NoValue], failed)
                       = Reply([http EXCEPT !.user = NoValue], 401)

\* an authenticated user whose role is user was refused a role change
C10_Witness ==
    /\ http.pc = "responded"
    /\ http.route = "updateUserRole"
    /\ http.user # NoValue
    /\ ~http.handlerRan
    /\ http.status = 403
    /\ ProfileAtArrival(http) # NoRow
    /\ Val(ProfileAtArrival(http)).role = "user"

\* The step is one of a getOrCreateProfile call in slot s.
GetOrCreateProfileStep(s) ==
    /\ call[s].op = "getOrCreateProfile"
    /\ call'[s] # call[s]

\* C11: no step of getOrCreateProfile changes the role or terms_accepted_at
\* of a profile row that exists when the step is taken, whatever
\* updateUserRole, acceptTerms and other getOrCreateProfile calls do in
\* between its steps.
C11_ExistingProfileNotModified ==
    [][\A s \in Slots :
          (GetOrCreateProfileStep(s) /\ profiles[call[s].user] # NoRow)
          => /\ profiles'[call[s].user] # NoRow
             /\ Val(profiles'[call[s].user]).role
                    = Val(profiles[call[s].user]).role
             /\ Val(profiles'[call[s].user]).terms_accepted_at
                    = Val(profiles[call[s].user]).terms_accepted_at]_vars

\* C12: with only getOrCreateProfile calls running, overlapping or not, every
\* call that completed returned a profile without an error, and the user has
\* the one row of its user_id, with role user, which is the row returned.
C12_ConcurrentGetOrCreateProfile ==
    \A s \in Slots :
        Done(s, "getOrCreateProfile") =>
            /\ call[s].error = "none"
            /\ call[s].result = ProfileRow("user", NoValue)
            /\ profiles[call[s].user] = call[s].result

\* one call has created the profile and returned while a second call for the
\* same user, which had found no profile, is about to write
C12_Witness ==
    /\ Done(1, "getOrCreateProfile")
    /\ call[2].op = "getOrCreateProfile"
    /\ call[2].pc = "profile_upsert"
    /\ call[2].user = call[1].user
    /\ profiles[call[1].user] # NoRow

\* The status each class of domain error is constructed with.
StatusOfClass(name) ==
    CASE name = "NotFoundError" -> 404
      [] name = "ConflictError" -> 409
      [] name = "ValidationError" -> 400
      [] name = "UnauthorizedError" -> 401
      [] name = "ForbiddenError" -> 403
      [] name = "InternalServerError" -> 500
      [] OTHER -> 422

DomainClasses ==
    {"NotFoundError", "ConflictError", "ValidationError", "UnauthorizedError",
     "ForbiddenError", "InsufficientDataError", "BusinessRuleError",
     "InternalServerError"}

\* C17: a controller's catch answers a typed domain error with the status of
\* its class (NotFound 404, Conflict 409, Validation 400, Unauthorized 401,
\* Forbidden 403, Internal 500) and with the error's code and message; any
\* error that is not a DomainError is answered 500 with code INTERNAL_ERROR
\* and a generic message, whatever code or status the error carries.
C17_ErrorToStatus ==
    (http.pc = "responded" /\ http.thrown # NoValue) =>
        LET error == Val(http.thrown) IN
        IF error.name \in DomainClasses
        THEN /\ http.status = StatusOfClass(error.name)
             /\ Val(http.body).error = Val(error.code)
             /\ Val(http.body).message = error.message
        ELSE /\ http.status = 500
             /\ Val(http.body).error = "INTERNAL_ERROR"
             /\ Val(http.body).message = <<"An unexpected error occurred">>

\* an error of the store's client that carries status 404 was answered 500
C17_Witness ==
    /\ http.pc = "responded"
    /\ http.thrown # NoValue
    /\ Val(http.thrown).name = "PostgrestError"
    /\ Val(http.thrown).statusCode = Some(404)
    /\ http.status = 500

NonNegativeStock ==
    \A p \in ProductIds : inventory[p] # NoRow => Val(inventory[p]).stock >= 0

\* A step in which a call is rejected.
Rejected(s) == call[s].error = "none" /\ call'[s].error # "none"

\* C13: whatever createProduct, updateInventory, adjustStock, reserveStock and
\* releaseStock calls run, with arguments of any sign, every inventory row
\* has stock >= 0, and the step that rejects a call leaves inventory as it is.
C13_StockNeverNegative ==
    /\ []NonNegativeStock
    /\ [][\A s \in Slots : Rejected(s) => inventory' = inventory]_vars

\* The sku check of slot s is answered in this step.
SkuChecked(s) == call[s].pc = "sku_check" /\ call'[s].pc # "sku_check"

\* The product lookup of an updateProduct call in slot s is answered.
ProductFound(s) ==
    /\ call[s].pc = "product_find"
    /\ call'[s].pc # "product_find"
    /\ products[call[s].product] # NoRow

KeepsOwnSku(c) ==
    c.sku = NoValue \/ Val(c.sku) = Val(products[c.product]).sku

\* C14: when createProduct, or updateProduct changing the sku, looks the sku
\* up and a product has it, the call fails with ConflictError, answered 409,
\* and products and inventory are left as they are; with no product having
\* the sku the call goes on.  An updateProduct that keeps the product's own
\* sku goes to its update without the lookup, and ConflictError comes from
\* nowhere else.
C14_SkuConflict ==
    [][\A s \in Slots :
          /\ SkuChecked(s) =>
                IF getProductBySku(Val(call[s].sku)) # {}
                THEN /\ call'[s].pc = "done"
                     /\ call'[s].error = "ConflictError"
                     /\ ProductControllerStatus(call'[s]) = 409
                     /\ products' = products
                     /\ inventory' = inventory
                ELSE call'[s].error = "none"
          /\ ProductFound(s) =>
                /\ call'[s].error = "none"
                /\ KeepsOwnSku(call[s]) <=> (call'[s].pc = "product_update")
          /\ (call[s].error = "none" /\ call'[s].error = "ConflictError")
                => SkuChecked(s)]_vars

\* createProduct was refused for a sku in use while an updateProduct that
\* named the product's own sku went through
C14_Witness ==
    /\ Done(1, "createProduct")
    /\ call[1].error = "ConflictError"
    /\ Done(2, "updateProduct")
    /\ call[2].error = "none"
    /\ call[2].sku = Some("sku2")
    /\ call[2].product = 2
    /\ Val(products[2]).sku = "sku2"

\* C15: when createProduct has returned successfully the new product has its
\* inventory row, with stock initial_stock (0 when omitted) and
\* low_stock_threshold as given (5 when omitted).
C15_CreateProductWithInventory ==
    \A s \in Slots :
        (Done(s, "createProduct") /\ Succeeded(s)) =>
            /\ call[s].result = Some(call[s].product)
            /\ products[call[s].product] # NoRow
            /\ inventory[call[s].product] # NoRow
            /\ Val(inventory[call[s].product]).stock =
                   (IF call[s].initial_stock = NoValue THEN 0
                    ELSE Val(call[s].initial_stock))
            /\ Val(inventory[call[s].product]).low_stock_threshold =
                   (IF call[s].low_stock_threshold = NoValue THEN 5
                    ELSE Val(call[s].low_stock_threshold))

\* a product was created with initial_stock and low_stock_threshold omitted
C15_Witness ==
    \E s \in Slots :
        /\ Done(s, "createProduct")
        /\ Succeeded(s)
        /\ call[s].initial_stock = NoValue
        /\ call[s].low_stock_threshold = NoValue
        /\ inventory[call[s].product] = InventoryRow(0, 5)

NothingRefersTo(productId) ==
    /\ products[productId] = NoRow
    /\ inventory[productId] = NoRow
    /\ product_images[productId] = 0
    /\ \A u \in Users : cart_items[u][productId] = NoRow

\* The product lookup of a deleteProduct call in slot s is answered.
DeleteLookedUp(s) == call[s].pc = "delete_find" /\ call'[s].pc # "delete_find"

\* C16: once deleteProduct(id) has returned successfully there is no products
\* row with the id and no inventory row, product image row or cart line that
\* refers to it; deleteProduct of an id without a row fails with
\* NotFoundError, answered 404, and changes no table.
C16_DeleteProductAndRelated ==
    /\ [](\A s \in Slots :
             (Done(s, "deleteProduct") /\ Succeeded(s))
                 => NothingRefersTo(call[s].product))
    /\ [][\A s \in Slots :
             (DeleteLookedUp(s) /\ products[call[s].product] = NoRow)
                 => /\ call'[s].pc = "done"
                    /\ call'[s].error = "NotFoundError"
                    /\ ProductControllerStatus(call'[s]) = 404
                    /\ UNCHANGED storeVars]_vars

\* a product that had an image, an inventory row and a cart line has been
\* deleted, and another deleteProduct of the same id was answered NotFound
C16_Witness ==
    /\ Done(1, "deleteProduct")
    /\ Succeeded(1)
    /\ call[1].product = 1
    /\ Done(2, "deleteProduct")
    /\ call[2].error = "NotFoundError"
    /\ call[2].product = 1
    /\ cart_items["u1"][2] # NoRow

\* Both slots hold a completed, successful addToCart of the same user for
\* the same product, whose line existed when the two calls started.
BothAdded(u, p) ==
    /\ \A s \in Slots :
           /\ Done(s, "addToCart")
           /\ Succeeded(s)
           /\ call[s].user = u
           /\ call[s].product = p
    /\ before[u][p] # NoRow

\* C18: two overlapping addToCart calls of one user for one product, with
\* quantities q1 and q2, that both succeed on a line of qty q0 leave the line
\* with qty q0 + q1 + q2.
C18_NoLostIncrement ==
    \A u \in Users, p \in ProductIds :
        BothAdded(u, p)
            => cart_items[u][p] = Row(Val(before[u][p]) + call[1].qty + call[2].qty)

\* A getOrCreateCart of the call in slot s completes in this step.
GotCart(s) ==
    /\ call[s].pc \in {"cart_find", "cart_insert"}
    /\ call'[s].pc \notin {"cart_find", "cart_insert"}

\* C20: a user who has used the cart has exactly one carts row, every
\* getOrCreateCart that completes returns it, and none fails, overlapping
\* first calls for one user included.
C20_OneCartPerUser ==
    [][\A s \in Slots :
          GotCart(s) => /\ call'[s].error = "none"
                        /\ call[s].user \in carts']_vars

\* The stock of product 1 before any call.
InitialStock == Val(InitInventory[1]).stock

\* Both slots hold a completed reserveStock of product 1, so that no other
\* call has written the inventory.
BothReserved ==
    \A s \in Slots :
        Done(s, "reserveStock") /\ call[s].product = 1 /\ call[s].qty > 0

\* What a completed reserveStock call has reserved.
ReservedQty(s) == IF Succeeded(s) THEN call[s].qty ELSE 0

\* The availability check of the reserveStock call in slot s is answered.
ReserveChecked(s) ==
    call[s].pc = "reserve_check" /\ call'[s].pc # "reserve_check"

\* C19: concurrent reserveStock calls on one product, starting from stock S
\* with no other inventory write, reserve in total at most S and leave the
\* stock at S minus what the successful calls reserved; a call for more than
\* the available stock fails with InsufficientDataError and leaves the stock
\* as it is.
C19_NeverOverReserves ==
    /\ [](BothReserved
             => /\ ReservedQty(1) + ReservedQty(2) <= InitialStock
                /\ Val(inventory[1]).stock
                       = InitialStock - (ReservedQty(1) + ReservedQty(2)))
    /\ [][\A s \in Slots :
             (/\ ReserveChecked(s)
              /\ inventory[call[s].product] # NoRow
              /\ call[s].qty > Val(inventory[call[s].product]).stock)
                 => /\ call'[s].error = "InsufficientDataError"
                    /\ inventory' = inventory]_vars

\* The products that createProduct calls have inserted.
CreatedProducts == {p \in ProductIds : InitProducts[p] = NoRow /\ products[p] # NoRow}

\* A createProduct call is between its two inserts for product p.
Creating(p) ==
    \E s \in Slots : /\ call[s].op = "createProduct"
                      /\ call[s].pc = "inventory_insert"
                      /\ call[s].product = p

\* The createProduct call in slot s fails in this step.
CreateProductFails(s) ==
    /\ call[s].op = "createProduct"
    /\ call[s].pc # "done"
    /\ call'[s].pc = "done"
    /\ call'[s].error # "none"

\* C21: a createProduct call that fails, the failure of createInventory after
\* the insert of the product included, leaves no product row and no inventory
\* row of its own, so that every product created has an inventory row once
\* its call is past the two inserts.
C21_CreateProductAllOrNothing ==
    /\ [][\A s \in Slots :
             (CreateProductFails(s) /\ call[s].product # 0)
                 => /\ products'[call[s].product] = NoRow
                    /\ inventory'[call[s].product] = NoRow]_vars
    /\ [](\A p \in CreatedProducts : Creating(p) \/ inventory[p] # NoRow)

\* The updateUserRole call in slot s completes successfully in this step.
RoleUpdated(s) ==
    /\ call[s].op = "updateUserRole"
    /\ call[s].pc = "profile_update"
    /\ call'[s].pc = "done"
    /\ call'[s].error = "none"

\* The role the store holds for u is r.
StoredRole(u, r) == profiles[u] # NoRow /\ Val(profiles[u]).role = r

\* A completed updateUserRole(u, r) has written r to the store, and the
\* stored role of a user goes from user to admin only by an
\* updateUserRole(u, admin).
RoleWrittenThrough ==
    /\ \A s \in Slots :
           RoleUpdated(s) => /\ profiles'[call[s].user] # NoRow
                             /\ Val(profiles'[call[s].user]).role = Val(call[s].role)
    /\ \A u \in Users :
           (/\ StoredRole(u, "user")
            /\ profiles'[u] # NoRow
            /\ Val(profiles'[u]).role = "admin")
               => \E s \in Slots : /\ RoleUpdated(s)
                                    /\ call[s].user = u
                                    /\ call[s].role = Some("admin")

\* adminGuard runs in this step for a user whose stored role is user.
GuardChecksDemoted ==
    /\ http.pc = "middleware"
    /\ http.guard = 2
    /\ http'.pc # "middleware"
    /\ http.user # NoValue
    /\ StoredRole(Val(http.user), "user")

Refused(h) ==
    /\ h.pc = "responded"
    /\ ~h.handlerRan
    /\ "adminGuard" \notin h.nextBy

\* C22, as stated: once updateUserRole(u, user) has completed and no later
\* call has set the role back to admin, every admin request of u whose
\* adminGuard check starts afterwards is answered 403 and its handler does
\* not run.
C22_Original_Answered403 ==
    [][/\ RoleWrittenThrough
       /\ GuardChecksDemoted => (Refused(http') /\ http'.status = 403)]_vars

\* C22, amended: once updateUserRole(u, user) has completed and no later call
\* has set the role back to admin, every admin request of u whose adminGuard
\* check starts afterwards is refused without its handler running, with 403
\* when adminGuard read the profile and with 500 when the read failed.
C22_RoleChangeTakesEffect ==
    [][/\ RoleWrittenThrough
       /\ GuardChecksDemoted
              => /\ Refused(http')
                 /\ http'.status = IF http'.lookupFailed THEN 500 ELSE 403]_vars

\* a request of u1 arrived while u1 was admin, updateUserRole(u1, user)
\* completed before its adminGuard ran, and it was answered 403
C22_Witness ==
    /\ Refused(http)
    /\ http.status = 403
    /\ http.user = Some("u1")
    /\ http.arrival[5]["u1"] # NoRow
    /\ Val(http.arrival[5]["u1"]).role = "admin"
    /\ \E s \in Slots : /\ Done(s, "updateUserRole")
                         /\ Succeeded(s)
                         /\ call[s].user = "u1"
                         /\ call[s].role = Some("user")

\* Every line of the cart is of a product whose prices the admin API accepts.
CatalogueCart ==
    \A i \in 1..Len(items) :
        PricesAccepted(items[i].retail_price, items[i].distributor_price)

\* C23: for a cart of products whose prices createProduct / updateProduct
\* accepted, when calculatePricing selects tier 'distributor' the subtotal
\* charged is at most the subtotal at retail prices, and distributor_savings,
\* when present, is the retail subtotal minus the distributor subtotal and
\* is > 0.
C23_DistributorTierIsDiscount ==
    (calculation # NoValue /\ CatalogueCart /\ Val(calculation).tier = "distributor")
        => LET c == Val(calculation)
           IN  /\ c.subtotal <= RetailTotal
               /\ c.distributor_savings # NoValue
                      => /\ Val(c.distributor_savings) = RetailTotal - DistributorTotal
                         /\ Val(c.distributor_savings) > 0

====
